---------------------------- MODULE Spec2Model ----------------------------
(***************************************************************************)
(* A model of examples/provisioning.rs of onvif-rs: the command line is    *)
(* parsed into Args, Clients::new discovers the services the device        *)
(* advertises and builds one client per recognised namespace, and main     *)
(* hands the resulting Clients to the command that was asked for.          *)
(*                                                                         *)
(* Text is a sequence of tokens.  A token is one character ("c", "/", "8") *)
(* or a whole word that no other text of the model contains a part of      *)
(* (the scheme names and the two segments of the path onvif/device_service)*)
(* so that one text is a prefix of another as a sequence of tokens exactly *)
(* when it is a prefix of it as a string of characters.  Option<T> is a    *)
(* sequence of length at most one: <<>> is None and <<x>> is Some(x).      *)
(***************************************************************************)
EXTENDS Integers, Sequences, FiniteSets, TLC

VARIABLES
    argv,       \* the command line: what the user typed for --username, --password, --uri
    args,       \* main: `args`, the Args that Args::from_args() returned (Option)
    pc,         \* where the program is
    creds,      \* Clients::new: `creds`
    base_uri,   \* Clients::new: `base_uri` (Option<Url>, None until line 57 has run)
    out,        \* Clients::new: `out`, the Clients under construction (Option)
    services,   \* Clients::new: `services.service`, the response of get_services (Option)
    idx,        \* Clients::new: position of the `for s in &services.service` loop
    ret,        \* the value Clients::new returned (Option<Result<Clients, String>>)
    clients,    \* main: `clients` (Option<Clients>)
    calls,      \* the requests sent to the device so far, in order
    validator,  \* the inputs and the verdict of the address check taken alone
    replies,    \* the device's answers to the requests it has answered, in order
    cmd,        \* main: the `args.cmd` that the match of line 229 found (Option)
    pending,    \* get_service_capabilities: the service whose answer is awaited (Option)
    printed     \* what the command has printed so far, in order

vars == <<argv, args, pc, creds, base_uri, out, services, idx, ret, clients, calls, validator,
          replies, cmd, pending, printed>>

None == <<>>
Some(x) == <<x>>
IsSome(o) == Len(o) = 1
Unwrap(o) == o[1]

(***************************************************************************)
(* Strings.                                                                *)
(***************************************************************************)
\* str::starts_with
StartsWith(s, p) == /\ Len(p) <= Len(s)
                    /\ SubSeq(s, 1, Len(p)) = p

\* the first position of token t in s, Len(s) + 1 when there is none
IndexOf(s, t) ==
    IF \E k \in 1..Len(s) : s[k] = t
    THEN CHOOSE k \in 1..Len(s) : s[k] = t /\ \A j \in 1..(k - 1) : s[j] # t
    ELSE Len(s) + 1

\* the last position of token t in s, 0 when there is none
LastIndexOf(s, t) ==
    IF \E k \in 1..Len(s) : s[k] = t
    THEN CHOOSE k \in 1..Len(s) : s[k] = t /\ \A j \in (k + 1)..Len(s) : s[j] # t
    ELSE 0

\* how many tokens t s begins with
LeadingCount(s, t) ==
    IF \E k \in 1..Len(s) : s[k] # t
    THEN (CHOOSE k \in 1..Len(s) : s[k] # t /\ \A j \in 1..(k - 1) : s[j] = t) - 1
    ELSE Len(s)

Drop(s, n) == SubSeq(s, n + 1, Len(s))

Digits == <<"0", "1", "2", "3", "4", "5", "6", "7", "8", "9">>
IsDigit(t) == \E d \in 1..10 : Digits[d] = t
DigitVal(t) == (CHOOSE d \in 1..10 : Digits[d] = t) - 1

\* the number a sequence of digits denotes; a port wider than u16 saturates
\* just above the range so that the caller can reject it
RECURSIVE DecimalValue(_)
DecimalValue(ds) ==
    IF ds = <<>> THEN 0
    ELSE LET high == DecimalValue(SubSeq(ds, 1, Len(ds) - 1))
             v    == high * 10 + DigitVal(ds[Len(ds)])
         IN  IF v > 65535 THEN 65536 ELSE v

\* the decimal digits of a number, as Display prints it
RECURSIVE DecimalText(_)
DecimalText(n) ==
    IF n < 10 THEN <<Digits[n + 1]>>
    ELSE Append(DecimalText(n \div 10), Digits[(n % 10) + 1])

(***************************************************************************)
(* The url crate, as far as the program uses it: Url::parse, Url::as_str,  *)
(* Url::join.  A Url is its components; as_str renders them.  User names,  *)
(* queries and fragments do not occur in the texts of the model.           *)
(***************************************************************************)
Schemes == {"http", "https", "rtsp"}
SpecialSchemes == {"http", "https"}
DefaultPort(scheme) ==
    CASE scheme = "http"  -> Some(80)
      [] scheme = "https" -> Some(443)
      [] OTHER            -> None

ParseOk(u) == [ok |-> TRUE, url |-> Some(u), err |-> <<>>]
ParseErr(e) == [ok |-> FALSE, url |-> None, err |-> <<e>>]

\* Url::parse of an absolute text.  A text without a scheme is a relative
\* reference and has no base here.  After a special scheme every leading
\* slash is skipped and the authority follows; after another scheme the
\* authority follows "//" only.  The host ends at the first "/", the port
\* follows the ":" inside it.  A special scheme needs a host and gets the
\* path "/" when the text has none; the scheme's default port is dropped.
UrlParseText(s) ==
    IF Len(s) < 2 \/ s[1] \notin Schemes \/ s[2] # ":"
    THEN ParseErr("relative URL without a base")
    ELSE
    LET scheme    == s[1]
        special   == scheme \in SpecialSchemes
        rest      == Drop(s, 2)
        slashes   == LeadingCount(rest, "/")
        hasAuth   == special \/ slashes >= 2
        afterSl   == IF special THEN Drop(rest, slashes)
                     ELSE IF slashes >= 2 THEN Drop(rest, 2) ELSE rest
        cut       == IF hasAuth THEN IndexOf(afterSl, "/") ELSE 1
        authority == SubSeq(afterSl, 1, cut - 1)
        rawPath   == Drop(afterSl, cut - 1)
        colon     == IndexOf(authority, ":")
        hostText  == SubSeq(authority, 1, colon - 1)
        portText  == Drop(authority, colon)
        portNum   == DecimalValue(portText)
        port      == IF portText = <<>> \/ Some(portNum) = DefaultPort(scheme)
                     THEN None ELSE Some(portNum)
        path      == IF special /\ rawPath = <<>> THEN <<"/">> ELSE rawPath
    IN  IF special /\ hostText = <<>> THEN ParseErr("empty host")
        ELSE IF \E k \in 1..Len(portText) : ~IsDigit(portText[k])
             THEN ParseErr("invalid port number")
        ELSE IF portNum > 65535 THEN ParseErr("invalid port number")
        ELSE ParseOk([scheme |-> scheme,
                      host   |-> IF hasAuth THEN Some(hostText) ELSE None,
                      port   |-> port,
                      path   |-> path])

\* Url::as_str: the serialization
UrlAsStr(u) ==
    <<u.scheme, ":">>
    \o (IF IsSome(u.host) THEN <<"/", "/">> \o Unwrap(u.host) ELSE <<>>)
    \o (IF IsSome(u.port) THEN <<":">> \o DecimalText(Unwrap(u.port)) ELSE <<>>)
    \o u.path

\* Url::join of a relative path (no scheme, no leading "/", no dot segments):
\* the base's last path segment is replaced by the reference.  A base without
\* a host whose path is not hierarchical cannot be a base.
UrlJoin(base, rel) ==
    IF ~IsSome(base.host) /\ ~StartsWith(base.path, <<"/">>)
    THEN ParseErr("relative URL with a cannot-be-a-base base")
    ELSE ParseOk([base EXCEPT
            !.path = IF base.path = <<>> THEN <<"/">> \o rel
                     ELSE SubSeq(base.path, 1, LastIndexOf(base.path, "/")) \o rel])

\* same scheme, host and port
SameOrigin(a, b) == /\ a.scheme = b.scheme
                    /\ a.host = b.host
                    /\ a.port = b.port

(***************************************************************************)
(* Bounds and inputs.                                                      *)
(***************************************************************************)
\* the longest service list the device answers with
MaxServices == 2

\* what the user may type for --username and --password
UsernameArgs == {None, Some("admin")}
PasswordArgs == {None, Some("secret")}

\* what the user may type for --uri: nothing, the HTTP root, a base with a
\* path that does not end in "/", a text that is no URL
UriArgs == {None,
            Some(<<"http", ":", "/", "/", "c">>),
            Some(<<"http", ":", "/", "/", "c", "/", "x">>),
            Some(<<"c">>)}

\* the addresses the device may advertise: two under both bases (the first
\* spelled with the default port), one on another host, one that is no URL
XAddrs == {<<"http", ":", "/", "/", "c", ":", "8", "0", "/", "x", "/", "p">>,
           <<"http", ":", "/", "/", "c", "/", "x", "/", "q">>,
           <<"http", ":", "/", "/", "e", "/", "x", "/", "p">>,
           <<"/", "/", "c", "/", "x", "/", "p">>}

\* Url::parse: the texts the program is run with are parsed once and looked
\* up, any other text is parsed on the spot
Texts == XAddrs \cup {Unwrap(u) : u \in UriArgs \ {None}}
ParsedTexts == [s \in Texts |-> UrlParseText(s)]
UrlParse(s) == IF s \in Texts THEN ParsedTexts[s] ELSE UrlParseText(s)

NsProvisioning == "http://www.onvif.org/ver10/provisioning/wsdl"
NsEvents       == "http://www.onvif.org/ver10/events/wsdl"
NsDeviceIO     == "http://www.onvif.org/ver10/deviceIO/wsdl"
NsMedia        == "http://www.onvif.org/ver10/media/wsdl"
NsMedia2       == "http://www.onvif.org/ver20/media/wsdl"
NsImaging      == "http://www.onvif.org/ver20/imaging/wsdl"
NsPtz          == "http://www.onvif.org/ver20/ptz/wsdl"
NsAnalytics    == "http://www.onvif.org/ver20/analytics/wsdl"
\* a namespace every device advertises and the match has no arm for
NsDevice       == "http://www.onvif.org/ver10/device/wsdl"

KnownNamespaces == {NsProvisioning, NsEvents, NsDeviceIO, NsMedia, NsMedia2,
                    NsImaging, NsPtz, NsAnalytics}
Namespaces == KnownNamespaces \cup {NsDevice}

\* the optional fields of Clients
OptionalSlots == {"event", "deviceio", "media", "media2", "imaging", "ptz", "analytics"}

Services == [namespace : Namespaces, x_addr : XAddrs]
ServiceLists == UNION {[1..n -> Services] : n \in 0..MaxServices}

(***************************************************************************)
(* Clients::new                                                            *)
(***************************************************************************)
Ok(v)  == [tag |-> "Ok",  val |-> Some(v), err |-> <<>>]
Err(e) == [tag |-> "Err", val |-> None,    err |-> e]

MissingUriMsg == <<"--uri must be specified.">>
TransportMsg  == <<"transport error">>
NotWithinMsg(x_addr, base) ==
    <<"Service URI ">> \o x_addr \o <<" is not within base URI ">> \o UrlAsStr(base)

DeviceServicePath == <<"onvif", "/", "device_service">>

\* soap::client::ClientBuilder::new(uri).credentials(creds).build()
Build(uri, cr) == [uri |-> uri, credentials |-> cr]

\* lines 49-56: the match on (username, password)
Creds(username, password) ==
    CASE IsSome(username) /\ IsSome(password) ->
            [panic |-> FALSE,
             creds |-> Some([username |-> Unwrap(username), password |-> Unwrap(password)])]
      [] ~IsSome(username) /\ ~IsSome(password) ->
            [panic |-> FALSE, creds |-> None]
      [] OTHER ->
            [panic |-> TRUE, creds |-> None]

\* the check of line 81 left out
IsWithinBase_Unchecked(url, base) == TRUE

\* line 81: url.as_str().starts_with(base_uri.as_str())
IsWithinBase(url, base) == StartsWith(UrlAsStr(url), UrlAsStr(base))

\* the match with a catch-all arm that stores the client instead of logging
StoreService_UnknownStored(o, namespace, svc) ==
    CASE namespace = NsProvisioning -> o
      [] namespace = NsEvents       -> [o EXCEPT !.event = svc]
      [] namespace = NsDeviceIO     -> [o EXCEPT !.deviceio = svc]
      [] namespace = NsMedia        -> [o EXCEPT !.media = svc]
      [] namespace = NsMedia2       -> [o EXCEPT !.media2 = svc]
      [] namespace = NsImaging      -> [o EXCEPT !.imaging = svc]
      [] namespace = NsPtz          -> [o EXCEPT !.ptz = svc]
      [] OTHER                      -> [o EXCEPT !.analytics = svc]

\* the match with arms that keep a client they already hold
StoreService_FirstWins(o, namespace, svc) ==
    CASE namespace = NsProvisioning -> o
      [] namespace = NsEvents       -> IF IsSome(o.event) THEN o ELSE [o EXCEPT !.event = svc]
      [] namespace = NsDeviceIO     -> IF IsSome(o.deviceio) THEN o ELSE [o EXCEPT !.deviceio = svc]
      [] namespace = NsMedia        -> IF IsSome(o.media) THEN o ELSE [o EXCEPT !.media = svc]
      [] namespace = NsMedia2       -> IF IsSome(o.media2) THEN o ELSE [o EXCEPT !.media2 = svc]
      [] namespace = NsImaging      -> IF IsSome(o.imaging) THEN o ELSE [o EXCEPT !.imaging = svc]
      [] namespace = NsPtz          -> IF IsSome(o.ptz) THEN o ELSE [o EXCEPT !.ptz = svc]
      [] namespace = NsAnalytics    -> IF IsSome(o.analytics) THEN o ELSE [o EXCEPT !.analytics = svc]
      [] OTHER                      -> o

\* lines 92-109: the match on s.namespace, storing svc in the field of its arm
StoreService(o, namespace, svc) ==
    CASE namespace = NsProvisioning -> o
      [] namespace = NsEvents       -> [o EXCEPT !.event = svc]
      [] namespace = NsDeviceIO     -> [o EXCEPT !.deviceio = svc]
      [] namespace = NsMedia        -> [o EXCEPT !.media = svc]
      [] namespace = NsMedia2       -> [o EXCEPT !.media2 = svc]
      [] namespace = NsImaging      -> [o EXCEPT !.imaging = svc]
      [] namespace = NsPtz          -> [o EXCEPT !.ptz = svc]
      [] namespace = NsAnalytics    -> [o EXCEPT !.analytics = svc]
      [] OTHER                      -> o

\* the mandatory clients built without the credentials
InitialClients_NoCreds(devicemgmt_uri, cr) ==
    [provisioning |-> Build(devicemgmt_uri, None),
     devicemgmt   |-> Build(devicemgmt_uri, None),
     imaging |-> None, ptz |-> None, event |-> None, deviceio |-> None,
     media |-> None, media2 |-> None, analytics |-> None]

\* lines 62-76: the Clients that discovery starts from
InitialClients(devicemgmt_uri, cr) ==
    [provisioning |-> Build(devicemgmt_uri, cr),
     devicemgmt   |-> Build(devicemgmt_uri, cr),
     imaging |-> None, ptz |-> None, event |-> None, deviceio |-> None,
     media |-> None, media2 |-> None, analytics |-> None]

\* Args::from_args(): clap rejects a --username without a --password and a
\* --password without a --username (`requires`), and a --uri that Url's
\* FromStr rejects; it prints the usage error and the process exits.
\* the two `requires` attributes left out
RequiresHold_Dropped(a) == TRUE

RequiresHold(a) == IsSome(a.username) <=> IsSome(a.password)

FromArgs ==
    /\ pc = "from_args"
    /\ LET uri == IF IsSome(argv.uri) THEN UrlParse(Unwrap(argv.uri))
                  ELSE ParseErr("absent")
       IN  IF ~RequiresHold(argv) \/ (IsSome(argv.uri) /\ ~uri.ok)
           THEN /\ pc' = "usage_error"
                /\ args' = None
           ELSE /\ pc' = "new_creds"
                /\ args' = Some([username |-> argv.username,
                                 password |-> argv.password,
                                 uri      |-> uri.url])
    /\ UNCHANGED <<argv, creds, base_uri, out, services, idx, ret, clients, calls, validator, replies, cmd, pending, printed>>

\* lines 49-56
NewCreds ==
    /\ pc = "new_creds"
    /\ LET c == Creds(Unwrap(args).username, Unwrap(args).password)
       IN  /\ pc' = IF c.panic THEN "panicked" ELSE "new_base_uri"
           /\ creds' = c.creds
    /\ UNCHANGED <<argv, args, base_uri, out, services, idx, ret, clients, calls, validator, replies, cmd, pending, printed>>

\* a missing --uri replaced by a default base instead of being reported
NewBaseUri_Default ==
    /\ pc = "new_base_uri"
    /\ base_uri' = IF IsSome(Unwrap(args).uri) THEN Unwrap(args).uri
                   ELSE UrlParse(<<"http", ":", "/", "/", "c">>).url
    /\ pc' = "new_build"
    /\ UNCHANGED <<argv, args, creds, out, services, idx, ret, clients, calls, validator, replies, cmd, pending, printed>>

\* lines 57-60: `?` returns the error when --uri was not given
NewBaseUri ==
    /\ pc = "new_base_uri"
    /\ IF IsSome(Unwrap(args).uri)
       THEN /\ base_uri' = Unwrap(args).uri
            /\ pc' = "new_build"
            /\ ret' = ret
       ELSE /\ base_uri' = base_uri
            /\ pc' = "returned"
            /\ ret' = Some(Err(MissingUriMsg))
    /\ UNCHANGED <<argv, args, creds, out, services, idx, clients, calls, validator, replies, cmd, pending, printed>>

\* lines 61-78: join (unwrap panics when it fails), the two mandatory clients,
\* and the GetServices request sent through out.devicemgmt
NewBuild ==
    /\ pc = "new_build"
    /\ LET j == UrlJoin(Unwrap(base_uri), DeviceServicePath)
       IN  IF j.ok
           THEN /\ out' = Some(InitialClients(Unwrap(j.url), creds))
                /\ calls' = Append(calls, "devicemgmt::get_services")
                /\ pc' = "get_services"
           ELSE /\ out' = out
                /\ calls' = calls
                /\ pc' = "panicked"
    /\ UNCHANGED <<argv, args, creds, base_uri, services, idx, ret, clients, validator, replies, cmd, pending, printed>>

\* a failed get_services answered with the mandatory clients alone
GetServicesErr_Fallback ==
    /\ pc = "get_services"
    /\ ret' = Some(Ok(Unwrap(out)))
    /\ pc' = "returned"
    /\ replies' = Append(replies, "Err")
    /\ UNCHANGED <<argv, args, creds, base_uri, out, services, idx, clients, calls, validator, cmd, pending, printed>>

\* line 78: get_services fails and `?` returns its error
GetServicesErr ==
    /\ pc = "get_services"
    /\ ret' = Some(Err(TransportMsg))
    /\ pc' = "returned"
    /\ replies' = Append(replies, "Err")
    /\ UNCHANGED <<argv, args, creds, base_uri, out, services, idx, clients, calls, validator, cmd, pending, printed>>

\* line 78: get_services answers with the list of the services
GetServicesOk ==
    /\ pc = "get_services"
    /\ \E list \in ServiceLists :
          services' = Some(list)
    /\ idx' = 1
    /\ pc' = "loop"
    /\ replies' = Append(replies, "Ok")
    /\ UNCHANGED <<argv, args, creds, base_uri, out, ret, clients, calls, validator, cmd, pending, printed>>

\* the loop body with `continue` in place of `?` on an address that does not parse
LoopService_SkipMalformed ==
    /\ pc = "loop"
    /\ idx <= Len(Unwrap(services))
    /\ LET s == Unwrap(services)[idx]
           p == UrlParse(s.x_addr)
       IN  IF ~p.ok
           THEN /\ idx' = idx + 1
                /\ UNCHANGED <<out, ret, pc>>
           ELSE IF ~IsWithinBase(Unwrap(p.url), Unwrap(base_uri))
           THEN /\ ret' = Some(Err(NotWithinMsg(s.x_addr, Unwrap(base_uri))))
                /\ pc' = "returned"
                /\ UNCHANGED <<out, idx>>
           ELSE /\ out' = Some(StoreService(Unwrap(out), s.namespace,
                                            Some(Build(Unwrap(p.url), creds))))
                /\ idx' = idx + 1
                /\ UNCHANGED <<ret, pc>>
    /\ UNCHANGED <<argv, args, creds, base_uri, services, clients, calls, validator, replies, cmd, pending, printed>>

\* the loop body with the namespace matched first: an entry without a slot is
\* passed over before its address is looked at
LoopService_NamespaceFirst ==
    /\ pc = "loop"
    /\ idx <= Len(Unwrap(services))
    /\ LET s == Unwrap(services)[idx]
           p == UrlParse(s.x_addr)
       IN  IF s.namespace \notin KnownNamespaces \/ s.namespace = NsProvisioning
           THEN /\ idx' = idx + 1
                /\ UNCHANGED <<out, ret, pc>>
           ELSE IF ~p.ok
           THEN /\ ret' = Some(Err(p.err))
                /\ pc' = "returned"
                /\ UNCHANGED <<out, idx>>
           ELSE IF ~IsWithinBase(Unwrap(p.url), Unwrap(base_uri))
           THEN /\ ret' = Some(Err(NotWithinMsg(s.x_addr, Unwrap(base_uri))))
                /\ pc' = "returned"
                /\ UNCHANGED <<out, idx>>
           ELSE /\ out' = Some(StoreService(Unwrap(out), s.namespace,
                                            Some(Build(Unwrap(p.url), creds))))
                /\ idx' = idx + 1
                /\ UNCHANGED <<ret, pc>>
    /\ UNCHANGED <<argv, args, creds, base_uri, services, clients, calls, validator, replies, cmd, pending, printed>>

\* the loop body with the client stored before its address is checked
LoopService_StoreBeforeCheck ==
    /\ pc = "loop"
    /\ idx <= Len(Unwrap(services))
    /\ LET s == Unwrap(services)[idx]
           p == UrlParse(s.x_addr)
       IN  IF ~p.ok
           THEN /\ ret' = Some(Err(p.err))
                /\ pc' = "returned"
                /\ UNCHANGED <<out, idx>>
           ELSE /\ out' = Some(StoreService(Unwrap(out), s.namespace,
                                            Some(Build(Unwrap(p.url), creds))))
                /\ IF ~IsWithinBase(Unwrap(p.url), Unwrap(base_uri))
                   THEN /\ ret' = Some(Err(NotWithinMsg(s.x_addr, Unwrap(base_uri))))
                        /\ pc' = "returned"
                        /\ idx' = idx
                   ELSE /\ idx' = idx + 1
                        /\ UNCHANGED <<ret, pc>>
    /\ UNCHANGED <<argv, args, creds, base_uri, services, clients, calls, validator, replies, cmd, pending, printed>>

\* the loop body that does not move on from an entry without a slot
LoopService_Stall ==
    /\ pc = "loop"
    /\ idx <= Len(Unwrap(services))
    /\ LET s == Unwrap(services)[idx]
           p == UrlParse(s.x_addr)
       IN  IF ~p.ok
           THEN /\ ret' = Some(Err(p.err))
                /\ pc' = "returned"
                /\ UNCHANGED <<out, idx>>
           ELSE IF ~IsWithinBase(Unwrap(p.url), Unwrap(base_uri))
           THEN /\ ret' = Some(Err(NotWithinMsg(s.x_addr, Unwrap(base_uri))))
                /\ pc' = "returned"
                /\ UNCHANGED <<out, idx>>
           ELSE /\ out' = Some(StoreService(Unwrap(out), s.namespace,
                                            Some(Build(Unwrap(p.url), creds))))
                /\ idx' = IF s.namespace \in KnownNamespaces THEN idx + 1 ELSE idx
                /\ UNCHANGED <<ret, pc>>
    /\ UNCHANGED <<argv, args, creds, base_uri, services, clients, calls, validator, replies, cmd, pending, printed>>

\* lines 79-110: one pass of the loop body
LoopService ==
    /\ pc = "loop"
    /\ idx <= Len(Unwrap(services))
    /\ LET s == Unwrap(services)[idx]
           p == UrlParse(s.x_addr)
       IN  IF ~p.ok
           THEN /\ ret' = Some(Err(p.err))
                /\ pc' = "returned"
                /\ UNCHANGED <<out, idx>>
           ELSE IF ~IsWithinBase(Unwrap(p.url), Unwrap(base_uri))
           THEN /\ ret' = Some(Err(NotWithinMsg(s.x_addr, Unwrap(base_uri))))
                /\ pc' = "returned"
                /\ UNCHANGED <<out, idx>>
           ELSE /\ out' = Some(StoreService(Unwrap(out), s.namespace,
                                            Some(Build(Unwrap(p.url), creds))))
                /\ idx' = idx + 1
                /\ UNCHANGED <<ret, pc>>
    /\ UNCHANGED <<argv, args, creds, base_uri, services, clients, calls, validator, replies, cmd, pending, printed>>

\* line 111: Ok(out)
NewReturn ==
    /\ pc = "loop"
    /\ idx > Len(Unwrap(services))
    /\ ret' = Some(Ok(Unwrap(out)))
    /\ pc' = "returned"
    /\ UNCHANGED <<argv, args, creds, base_uri, out, services, idx, clients, calls, validator, replies, cmd, pending, printed>>

\* main going on with what discovery had built when it failed
MainUnwrap_Fallback ==
    /\ pc = "returned"
    /\ IF Unwrap(ret).tag = "Ok"
       THEN /\ clients' = Unwrap(ret).val
            /\ pc' = "dispatch"
       ELSE IF IsSome(out)
       THEN /\ clients' = out
            /\ pc' = "dispatch"
       ELSE /\ clients' = clients
            /\ pc' = "panicked"
    /\ creds' = None
    /\ base_uri' = None
    /\ out' = None
    /\ services' = None
    /\ idx' = 0
    /\ UNCHANGED <<argv, args, ret, calls, validator, replies, cmd, pending, printed>>

\* line 227: Clients::new(&args).await.unwrap(); the locals of new are gone
MainUnwrap ==
    /\ pc = "returned"
    /\ IF Unwrap(ret).tag = "Ok"
       THEN /\ clients' = Unwrap(ret).val
            /\ pc' = "dispatch"
       ELSE /\ clients' = clients
            /\ pc' = "panicked"
    /\ creds' = None
    /\ base_uri' = None
    /\ out' = None
    /\ services' = None
    /\ idx' = 0
    /\ UNCHANGED <<argv, args, ret, calls, validator, replies, cmd, pending, printed>>

(***************************************************************************)
(* main's match on args.cmd and the four commands.  The subcommand is not  *)
(* read before line 229, and it is drawn there.  A command runs from one   *)
(* await to the next in one step; the device answers each request with a   *)
(* response or with a transport error.                                     *)
(***************************************************************************)
Answers == {"Ok", "Err"}

\* what a command prints: which line, and for the Debug or Display of a
\* Result which of the two it shows
Line(label, answer) == [label |-> label, answer |-> answer]

\* lines 167-218: the services get_service_capabilities asks, in its order
FanOutOrder == <<"provisioning", "devicemgmt", "event", "deviceio", "media",
                 "media2", "imaging", "ptz", "analytics">>

\* provisioning and devicemgmt are plain fields, the others are Options
HasClient(set, service) ==
    \/ service \in {"provisioning", "devicemgmt"}
    \/ IsSome(set[service])

\* schema::<service>::get_service_capabilities
CapabilitiesRequest(service) ==
    CASE service = "provisioning" -> "provisioning::get_service_capabilities"
      [] service = "devicemgmt"   -> "devicemgmt::get_service_capabilities"
      [] service = "event"        -> "event::get_service_capabilities"
      [] service = "deviceio"     -> "deviceio::get_service_capabilities"
      [] service = "media"        -> "media::get_service_capabilities"
      [] service = "media2"       -> "media2::get_service_capabilities"
      [] service = "imaging"      -> "imaging::get_service_capabilities"
      [] service = "ptz"          -> "ptz::get_service_capabilities"
      [] service = "analytics"    -> "analytics::get_service_capabilities"

PositionOf(service) == CHOOSE k \in 1..Len(FanOutOrder) : FanOutOrder[k] = service

\* the positions after `service` whose `if let Some(..)` finds a client
LaterWithClient(set, service) ==
    {k \in (PositionOf(service) + 1)..Len(FanOutOrder) : HasClient(set, FanOutOrder[k])}

First(S) == CHOOSE k \in S : \A j \in S : k <= j

\* lines 230, 115-118: the request of get_system_date_and_time
DispatchGetSystemDateAndTime ==
    /\ pc = "dispatch"
    /\ cmd' = Some("GetSystemDateAndTime")
    /\ calls' = Append(calls, "devicemgmt::get_system_date_and_time")
    /\ pc' = "get_system_date_and_time"
    /\ UNCHANGED <<argv, args, creds, base_uri, out, services, idx, ret, clients, validator, replies, pending, printed>>

\* lines 118-119: the Result is printed, whichever it is
GetSystemDateAndTimeAnswer ==
    /\ pc = "get_system_date_and_time"
    /\ \E r \in Answers :
          /\ replies' = Append(replies, r)
          /\ printed' = Append(printed, Line("date", r))
    /\ pc' = "done"
    /\ UNCHANGED <<argv, args, creds, base_uri, out, services, idx, ret, clients, calls, validator, cmd, pending>>

\* lines 234, 122-128: ContentType("000000") passes validate(), whose schema
\* asks for at least three characters, and the request is sent
DispatchUpgradeSystemFirmware ==
    /\ pc = "dispatch"
    /\ cmd' = Some("UpgradeSystemFirmware")
    /\ calls' = Append(calls, "devicemgmt::upgrade_system_firmware")
    /\ pc' = "upgrade_system_firmware"
    /\ UNCHANGED <<argv, args, creds, base_uri, out, services, idx, ret, clients, validator, replies, pending, printed>>

\* lines 128-129
UpgradeSystemFirmwareAnswer ==
    /\ pc = "upgrade_system_firmware"
    /\ \E r \in Answers :
          /\ replies' = Append(replies, r)
          /\ printed' = Append(printed, Line("res is", r))
    /\ pc' = "done"
    /\ UNCHANGED <<argv, args, creds, base_uri, out, services, idx, ret, clients, calls, validator, cmd, pending>>

\* lines 231, 133: pan_move asks the provisioning service for its capabilities
DispatchPanMove ==
    /\ pc = "dispatch"
    /\ cmd' = Some("PanMove")
    /\ calls' = Append(calls, "provisioning::get_service_capabilities")
    /\ pc' = "pan_move_capabilities"
    /\ UNCHANGED <<argv, args, creds, base_uri, out, services, idx, ret, clients, validator, replies, pending, printed>>

\* lines 133-142: unwrap panics on a transport error; without sources the
\* command prints and returns, with sources it sends PanMove for the first
PanMoveCapabilities ==
    /\ pc = "pan_move_capabilities"
    /\ \E r \in Answers, sources \in {<<>>, <<"VideoSource_1">>} :
          /\ replies' = Append(replies, r)
          /\ IF r = "Err"
             THEN /\ pc' = "panicked"
                  /\ UNCHANGED <<calls, printed>>
             ELSE IF sources = <<>>
             THEN /\ printed' = Append(printed, Line("No service capabilities", ""))
                  /\ pc' = "done"
                  /\ calls' = calls
             ELSE /\ calls' = Append(calls, "provisioning::pan_move")
                  /\ pc' = "pan_move"
                  /\ printed' = printed
    /\ UNCHANGED <<argv, args, creds, base_uri, out, services, idx, ret, clients, validator, cmd, pending>>

\* lines 139-144: unwrap panics on a transport error
PanMoveAnswer ==
    /\ pc = "pan_move"
    /\ \E r \in Answers :
          /\ replies' = Append(replies, r)
          /\ pc' = IF r = "Err" THEN "panicked" ELSE "done"
    /\ UNCHANGED <<argv, args, creds, base_uri, out, services, idx, ret, clients, calls, validator, cmd, pending, printed>>

\* lines 233, 167: the first request of get_service_capabilities
DispatchGetServiceCapabilities ==
    /\ pc = "dispatch"
    /\ cmd' = Some("GetServiceCapabilities")
    /\ calls' = Append(calls, CapabilitiesRequest("provisioning"))
    /\ pending' = Some("provisioning")
    /\ pc' = "get_service_capabilities"
    /\ UNCHANGED <<argv, args, creds, base_uri, out, services, idx, ret, clients, validator, replies, printed>>

\* the answer of a service ends the command when it is a transport error
ServiceCapabilitiesAnswer_StopOnError ==
    /\ pc = "get_service_capabilities"
    /\ \E r \in Answers :
          /\ replies' = Append(replies, r)
          /\ printed' = Append(printed, Line(Unwrap(pending), r))
          /\ LET later == LaterWithClient(Unwrap(clients), Unwrap(pending))
             IN  IF later = {} \/ r = "Err"
                 THEN /\ pending' = None
                      /\ pc' = "done"
                      /\ calls' = calls
                 ELSE /\ pending' = Some(FanOutOrder[First(later)])
                      /\ calls' = Append(calls, CapabilitiesRequest(FanOutOrder[First(later)]))
                      /\ pc' = pc
    /\ UNCHANGED <<argv, args, creds, base_uri, out, services, idx, ret, clients, validator, cmd>>

\* the answer of a service with an optional client that failed is dropped from clients
ServiceCapabilitiesAnswer_DropFailed ==
    /\ pc = "get_service_capabilities"
    /\ \E r \in Answers :
          /\ replies' = Append(replies, r)
          /\ printed' = Append(printed, Line(Unwrap(pending), r))
          /\ clients' = IF r = "Err" /\ Unwrap(pending) \notin {"provisioning", "devicemgmt"}
                        THEN Some([Unwrap(clients) EXCEPT ![Unwrap(pending)] = None])
                        ELSE clients
          /\ LET later == LaterWithClient(Unwrap(clients), Unwrap(pending))
             IN  IF later = {}
                 THEN /\ pending' = None
                      /\ pc' = "done"
                      /\ calls' = calls
                 ELSE /\ pending' = Some(FanOutOrder[First(later)])
                      /\ calls' = Append(calls, CapabilitiesRequest(FanOutOrder[First(later)]))
                      /\ pc' = pc
    /\ UNCHANGED <<argv, args, creds, base_uri, out, services, idx, ret, validator, cmd>>

\* lines 167-218: the answer of the awaited service is printed, as the
\* capabilities or as "Failed to fetch ..."; the `if let Some(..)` of the
\* services that follow are passed up to the next that has a client, whose
\* request is sent; after the last the command returns
ServiceCapabilitiesAnswer ==
    /\ pc = "get_service_capabilities"
    /\ \E r \in Answers :
          /\ replies' = Append(replies, r)
          /\ printed' = Append(printed, Line(Unwrap(pending), r))
          /\ LET later == LaterWithClient(Unwrap(clients), Unwrap(pending))
             IN  IF later = {}
                 THEN /\ pending' = None
                      /\ pc' = "done"
                      /\ calls' = calls
                 ELSE /\ pending' = Some(FanOutOrder[First(later)])
                      /\ calls' = Append(calls, CapabilitiesRequest(FanOutOrder[First(later)]))
                      /\ pc' = pc
    /\ UNCHANGED <<argv, args, creds, base_uri, out, services, idx, ret, clients, validator, cmd>>

Init ==
    /\ argv \in [username : UsernameArgs, password : PasswordArgs, uri : UriArgs]
    /\ args = None
    /\ pc = "from_args"
    /\ creds = None
    /\ base_uri = None
    /\ out = None
    /\ services = None
    /\ idx = 0
    /\ ret = None
    /\ clients = None
    /\ calls = <<>>
    /\ validator = None
    /\ replies = <<>>
    /\ cmd = None
    /\ pending = None
    /\ printed = <<>>

Next ==
    \/ FromArgs
    \/ NewCreds
    \/ NewBaseUri
    \/ NewBuild
    \/ GetServicesErr
    \/ GetServicesOk
    \/ LoopService
    \/ NewReturn
    \/ MainUnwrap
    \/ DispatchGetSystemDateAndTime
    \/ GetSystemDateAndTimeAnswer
    \/ DispatchUpgradeSystemFirmware
    \/ UpgradeSystemFirmwareAnswer
    \/ DispatchPanMove
    \/ PanMoveCapabilities
    \/ PanMoveAnswer
    \/ DispatchGetServiceCapabilities
    \/ ServiceCapabilitiesAnswer

Spec == Init /\ [][Next]_vars

\* the code between two awaits runs to its end: the loop of Clients::new takes
\* its next pass and returns after the last
SpecLive == Spec /\ WF_vars(LoopService) /\ WF_vars(NewReturn)

(***************************************************************************)
(* The address check taken alone: a base and a candidate text are parsed   *)
(* and the check of line 81 is applied to the two Urls.                    *)
(***************************************************************************)
ValidatorTexts ==
    { <<scheme, ":", "/", "/">> \o host \o port \o path :
         scheme \in {"http", "rtsp"},
         host   \in {<<"c">>, <<"c", "e">>},
         port   \in {<<>>, <<":", "8">>, <<":", "8", "0">>},
         path   \in {<<>>, <<"/">>, <<"/", "x">>} }
    \cup {<<"c">>}

ValidatorParse ==
    /\ pc = "validator"
    /\ Unwrap(validator).step = "input"
    /\ LET b == UrlParse(Unwrap(validator).base)
           c == UrlParse(Unwrap(validator).candidate)
       IN  validator' = Some([Unwrap(validator) EXCEPT
                !.step = IF b.ok /\ c.ok THEN "parsed" ELSE "rejected",
                !.base_url = b.url,
                !.url = c.url])
    /\ UNCHANGED <<argv, args, pc, creds, base_uri, out, services, idx, ret, clients, calls, replies, cmd, pending, printed>>

ValidatorCheck ==
    /\ pc = "validator"
    /\ Unwrap(validator).step = "parsed"
    /\ validator' = Some([Unwrap(validator) EXCEPT
            !.step = "checked",
            !.trusted = IsWithinBase(Unwrap(Unwrap(validator).url),
                                     Unwrap(Unwrap(validator).base_url))])
    /\ UNCHANGED <<argv, args, pc, creds, base_uri, out, services, idx, ret, clients, calls, replies, cmd, pending, printed>>

ValidatorInit ==
    /\ \E b \in ValidatorTexts, c \in ValidatorTexts :
          validator = Some([base |-> b, candidate |-> c, step |-> "input",
                            base_url |-> None, url |-> None, trusted |-> FALSE])
    /\ argv = [username |-> None, password |-> None, uri |-> None]
    /\ args = None
    /\ pc = "validator"
    /\ creds = None
    /\ base_uri = None
    /\ out = None
    /\ services = None
    /\ idx = 0
    /\ ret = None
    /\ clients = None
    /\ calls = <<>>
    /\ replies = <<>>
    /\ cmd = None
    /\ pending = None
    /\ printed = <<>>

ValidatorNext ==
    \/ ValidatorParse
    \/ ValidatorCheck

SpecValidator == ValidatorInit /\ [][ValidatorNext]_vars

(***************************************************************************)
(* Properties.  While pc = "returned" the value Clients::new returned is   *)
(* in ret and its locals (base_uri, services, idx) are still those of the  *)
(* run; main's unwrap drops them.                                          *)
(***************************************************************************)
Returned == pc = "returned" /\ IsSome(ret)
Result == Unwrap(ret)
\* the run received the service list
Listed == IsSome(services)
List == Unwrap(services)
Base == Unwrap(base_uri)

AddrParses(s) == UrlParse(s.x_addr).ok
AddrUrl(s) == Unwrap(UrlParse(s.x_addr).url)
\* the address parses and its rendered form does not begin with the rendered base
AddrOutside(s, base) == AddrParses(s) /\ ~StartsWith(UrlAsStr(AddrUrl(s)), UrlAsStr(base))
AddrGood(s, base) == AddrParses(s) /\ StartsWith(UrlAsStr(AddrUrl(s)), UrlAsStr(base))

\* the first entry of the list that does not parse or lies outside the base
FirstOffender(list, base) ==
    CHOOSE k \in 1..Len(list) :
        /\ ~AddrGood(list[k], base)
        /\ \A j \in 1..(k - 1) : AddrGood(list[j], base)

\* the error a run fails with at the entry s
ErrorAt(s, base) ==
    IF AddrParses(s) THEN NotWithinMsg(s.x_addr, base) ELSE UrlParse(s.x_addr).err

IsUntrustedError(e) == StartsWith(e, <<"Service URI ">>)
IsParseError(e) == e \in {<<"relative URL without a base">>, <<"empty host">>,
                          <<"invalid port number">>}

\* the namespace table of the interface section
SlotNamespace(slot) ==
    CASE slot = "event"     -> NsEvents
      [] slot = "deviceio"  -> NsDeviceIO
      [] slot = "media"     -> NsMedia
      [] slot = "media2"    -> NsMedia2
      [] slot = "imaging"   -> NsImaging
      [] slot = "ptz"       -> NsPtz
      [] slot = "analytics" -> NsAnalytics

\* the positions of the list that carry the slot's namespace
Carriers(list, slot) == {k \in 1..Len(list) : list[k].namespace = SlotNamespace(slot)}
Last(S) == CHOOSE k \in S : \A j \in S : j <= k

\* the slot is bound last-wins to the entries of the list that carry its namespace
SlotIsLastWins(set, list, slot) ==
    IF Carriers(list, slot) = {} THEN set[slot] = None
    ELSE /\ Len(set[slot]) = 1
         /\ Unwrap(set[slot]).uri = AddrUrl(list[Last(Carriers(list, slot))])

KnownOnly(list) == SelectSeq(list, LAMBDA s : s.namespace \in KnownNamespaces)

HalfCredentials == IsSome(argv.username) # IsSome(argv.password)

\* C1 as stated: a run whose list holds an address outside the base fails with
\* the untrusted-origin error.
C1_Original ==
    (Returned /\ Listed /\ \E k \in 1..Len(List) : AddrOutside(List[k], Base))
        => /\ Result.tag = "Err"
           /\ IsUntrustedError(Result.err)

\* C1 amended: a run whose list holds an address outside the base fails and
\* returns no Clients; the error is that of the first entry that does not parse
\* or lies outside the base: the untrusted-origin error naming it when it
\* parses, its parse error when it does not.
C1_UntrustedAborts ==
    (Returned /\ Listed /\ \E k \in 1..Len(List) : AddrOutside(List[k], Base))
        => /\ Result.tag = "Err"
           /\ Result.val = None
           /\ clients = None
           /\ Result.err = ErrorAt(List[FirstOffender(List, Base)], Base)
           /\ AddrParses(List[FirstOffender(List, Base)]) => IsUntrustedError(Result.err)

C1_Witness ==
    /\ Returned /\ Listed
    /\ Len(List) = 2
    /\ AddrGood(List[1], Base)
    /\ AddrOutside(List[2], Base)
    /\ Result.tag = "Err"
    /\ IsUntrustedError(Result.err)

\* every client of a Clients
ClientsOf(set) ==
    {set.provisioning, set.devicemgmt}
    \cup {Unwrap(set[slot]) : slot \in {x \in OptionalSlots : IsSome(set[x])}}

\* C2: every client of the Clients that discovery returned is bound to an
\* address whose rendered form begins with the rendered base address.
C2_AllClientsWithinBase ==
    IsSome(clients) =>
        \A c \in ClientsOf(Unwrap(clients)) :
            StartsWith(UrlAsStr(c.uri), UrlAsStr(Unwrap(Unwrap(args).uri)))

\* C3: an address the prefix check accepts has the scheme, the host and the
\* port of the base.
C3_AcceptedIsSameOrigin ==
    (IsSome(validator) /\ Unwrap(validator).step = "checked" /\ Unwrap(validator).trusted)
        => SameOrigin(Unwrap(Unwrap(validator).url), Unwrap(Unwrap(validator).base_url))

\* C4 as stated: when the entries with a recognised namespace are all sound, an
\* entry with an unrecognised namespace raises no error and discovery completes.
C4_Original ==
    (Returned /\ Listed
       /\ (\E k \in 1..Len(List) : List[k].namespace \notin KnownNamespaces)
       /\ (\A k \in 1..Len(List) :
             List[k].namespace \in KnownNamespaces => AddrGood(List[k], Base)))
        => Result.tag = "Ok"

\* C4 amended: an entry with an unrecognised namespace whose address parses and
\* lies within the base raises no error and binds no slot: when every address
\* of the list is sound discovery completes, and the slots are what the
\* recognised entries alone produce; a run that fails, fails at an entry whose
\* address does not parse or lies outside the base.
C4_UnknownNamespaceSkipped ==
    (Returned /\ Listed)
        => /\ (\A k \in 1..Len(List) : AddrGood(List[k], Base))
                => /\ Result.tag = "Ok"
                   /\ \A slot \in OptionalSlots :
                         SlotIsLastWins(Unwrap(Result.val), KnownOnly(List), slot)
           /\ Result.tag = "Err"
                => /\ idx \in 1..Len(List)
                   /\ ~AddrGood(List[idx], Base)

C4_Witness ==
    /\ Returned /\ Listed
    /\ Len(List) = 2
    /\ List[1].namespace = NsPtz
    /\ List[2].namespace = NsDevice
    /\ List[1].x_addr # List[2].x_addr
    /\ Result.tag = "Ok"
    /\ IsSome(Unwrap(Result.val).ptz)
    /\ \A slot \in OptionalSlots \ {"ptz"} : Unwrap(Result.val)[slot] = None

\* C5: after a successful discovery every optional slot holds the one client
\* bound to the address of the last entry that carries its namespace, and holds
\* none exactly when no entry carries it.
C5_LastWins ==
    (Returned /\ Listed /\ Result.tag = "Ok")
        => \A slot \in OptionalSlots :
              /\ SlotIsLastWins(Unwrap(Result.val), List, slot)
              /\ Unwrap(Result.val)[slot] = None <=> Carriers(List, slot) = {}

C5_Witness ==
    /\ Returned /\ Listed /\ Result.tag = "Ok"
    /\ Len(List) = 2
    /\ List[1].namespace = NsMedia2
    /\ List[2].namespace = NsMedia2
    /\ AddrUrl(List[1]) # AddrUrl(List[2])
    /\ Unwrap(Unwrap(Result.val).media2).uri = AddrUrl(List[2])
    /\ Unwrap(Result.val).media = None

\* C6: discovery is all or nothing: an error comes with no Clients, a Clients
\* is returned only once the list was received and every entry of it went
\* through the loop, and main holds a Clients only when it is the returned one.
C6_AllOrNothing ==
    /\ IsSome(ret) =>
          /\ Result.tag = "Err" => Result.val = None /\ clients = None
          /\ Result.tag = "Ok" => IsSome(Result.val)
          /\ (pc = "returned" /\ Result.tag = "Ok")
                => Listed /\ idx = Len(List) + 1
          /\ (pc = "returned" /\ calls # <<>> /\ ~Listed)
                => Result.tag = "Err" /\ Result.err = TransportMsg
    /\ IsSome(clients) => IsSome(ret) /\ Result.tag = "Ok" /\ clients = Result.val

C6_Witness ==
    /\ pc = "returned" /\ IsSome(ret)
    /\ calls # <<>> /\ ~Listed
    /\ Result.tag = "Err"
    /\ Result.val = None

\* C7 as stated: a run whose list holds an address that does not parse fails
\* with the invalid-address error.
C7_Original ==
    (Returned /\ Listed /\ \E k \in 1..Len(List) : ~AddrParses(List[k]))
        => /\ Result.tag = "Err"
           /\ IsParseError(Result.err)

\* C7 amended: a run whose list holds an address that does not parse fails and
\* returns no Clients, whatever the other entries are; the entry is not
\* skipped.  The error is the parse error of the first such entry unless an
\* earlier entry parses and lies outside the base, and then it is the
\* untrusted-origin error of that entry.
C7_MalformedAborts ==
    (Returned /\ Listed /\ \E k \in 1..Len(List) : ~AddrParses(List[k]))
        => /\ Result.tag = "Err"
           /\ Result.val = None
           /\ clients = None
           /\ Result.err = ErrorAt(List[FirstOffender(List, Base)], Base)
           /\ ~AddrParses(List[FirstOffender(List, Base)]) => IsParseError(Result.err)

C7_Witness ==
    /\ Returned /\ Listed
    /\ Len(List) = 2
    /\ AddrGood(List[1], Base)
    /\ ~AddrParses(List[2])
    /\ Result.tag = "Err"
    /\ IsParseError(Result.err)

\* C8: without --uri Clients::new returns the missing-base error, and no
\* request is ever sent to the device in such a run.
C8_MissingUriBeforeNetwork ==
    ~IsSome(argv.uri)
        => /\ calls = <<>>
           /\ clients = None
           /\ IsSome(ret) => Result = Err(MissingUriMsg)
           /\ pc \in {"from_args", "usage_error", "new_creds", "new_base_uri",
                      "returned", "panicked"}

C8_Witness ==
    /\ ~IsSome(argv.uri)
    /\ pc = "returned"
    /\ ret = Some(Err(MissingUriMsg))
    /\ calls = <<>>

\* C9: a --username without a --password, or a --password without a
\* --username, is rejected when the arguments are validated: the run ends
\* there, Clients::new is never entered and no request is ever sent.
C9_HalfCredentialsRejected ==
    HalfCredentials
        => /\ pc \in {"from_args", "usage_error"}
           /\ calls = <<>>
           /\ args = None
           /\ ret = None
           /\ clients = None

C9_Witness ==
    /\ HalfCredentials
    /\ IsSome(argv.uri)
    /\ pc = "usage_error"
    /\ calls = <<>>

\* C10: a half-specified credential pair is reported as an Err value that
\* Clients::new returns to its caller.
C10_ReportedAsErrValue ==
    (HalfCredentials /\ pc # "from_args")
        => /\ IsSome(ret)
           /\ Result.tag = "Err"

\* ---- the dispatched commands ----

GetServicesRequest == "devicemgmt::get_services"
RanCapabilities == pc = "done" /\ cmd = Some("GetServiceCapabilities")
\* the services of the fan-out that have a client, in the order of the fan-out
Present(set) == SelectSeq(FanOutOrder, LAMBDA service : HasClient(set, service))

\* C11: when the capabilities command has run, every service that has a client
\* was asked exactly once, in the order of the fan-out, and has exactly one
\* printed line, which carries the answer the device gave to that request,
\* whatever the other services answered; the command never panics.
C11_EveryPresentCapabilityReported ==
    /\ cmd = Some("GetServiceCapabilities") => pc # "panicked"
    /\ RanCapabilities =>
          LET present == Present(Unwrap(clients))
          IN  /\ calls = <<GetServicesRequest>>
                         \o [k \in 1..Len(present) |-> CapabilitiesRequest(present[k])]
              /\ Len(replies) = Len(calls)
              /\ Len(printed) = Len(present)
              /\ \A k \in 1..Len(present) :
                    printed[k] = Line(present[k], replies[k + 1])

\* the media service failed and the ptz service, asked after it, was reported
C11_Witness ==
    /\ RanCapabilities
    /\ \E j, k \in 1..Len(printed) :
          /\ j < k
          /\ printed[j] = Line("media", "Err")
          /\ printed[k] = Line("ptz", "Ok")
    /\ ~IsSome(Unwrap(clients).imaging)

\* C12 as stated: when the capabilities command has run, every optional slot
\* that holds no client has a line that reports the capability as absent.
C12_AbsentSlotReported ==
    RanCapabilities =>
        \A slot \in OptionalSlots :
            ~IsSome(Unwrap(clients)[slot]) =>
                \E k \in 1..Len(printed) : printed[k] = Line(slot, "CapabilityAbsent")

\* C13 as stated: a command whose request met a transport failure does not
\* end the process in a panic.
C13_TransportFailureIsolated ==
    (IsSome(cmd) /\ \E k \in 2..Len(replies) : replies[k] = "Err") => pc # "panicked"

\* the credentials of the session: the pair of the command line, or none
SessionCredentials ==
    IF IsSome(argv.username) /\ IsSome(argv.password)
    THEN Some([username |-> Unwrap(argv.username), password |-> Unwrap(argv.password)])
    ELSE None

\* C14: every client of a Clients that discovery returned, and of the Clients
\* main then works with, carries the credentials of the session: the pair
\* given on the command line, or none when none was given.
C14_SameCredentialsEverywhere ==
    /\ (IsSome(ret) /\ Result.tag = "Ok") =>
          \A c \in ClientsOf(Unwrap(Result.val)) : c.credentials = SessionCredentials
    /\ IsSome(clients) =>
          \A c \in ClientsOf(Unwrap(clients)) : c.credentials = SessionCredentials

\* credentials were given and discovery returned a set with two optional clients
C14_Witness ==
    /\ IsSome(ret) /\ Result.tag = "Ok"
    /\ IsSome(SessionCredentials)
    /\ Cardinality({slot \in OptionalSlots : IsSome(Unwrap(Result.val)[slot])}) = 2
    /\ \A c \in ClientsOf(Unwrap(Result.val)) : c.credentials = SessionCredentials

\* C15: the Clients of main is assigned once, when discovery returns, and no
\* step after that changes it: no dispatched command adds or removes a client
\* or changes the address or credentials of one.
C15_BuiltOnceThenImmutable ==
    [][/\ IsSome(clients) => clients' = clients
       /\ clients' # clients => (pc = "returned" /\ clients' = Unwrap(ret).val)]_vars

\* a capabilities command ran to its end, with a failed request to an optional
\* service, and the set still is what discovery returned
C15_Witness ==
    /\ RanCapabilities
    /\ \E k \in 3..Len(printed) : printed[k].answer = "Err"
    /\ clients = Result.val

\* the text of a base address with the device service path appended to it
Appended(base) ==
    LET text == UrlAsStr(base)
    IN  text \o (IF text[Len(text)] = "/" THEN <<>> ELSE <<"/">>) \o DeviceServicePath

\* C16 as stated: after a successful discovery devicemgmt and provisioning are
\* bound to the base address with onvif/device_service appended, whatever the
\* list held.
C16_MandatoryAtAppendedPath ==
    (IsSome(ret) /\ Result.tag = "Ok") =>
        LET set == Unwrap(Result.val)
            base == Unwrap(Unwrap(args).uri)
        IN  /\ UrlAsStr(set.devicemgmt.uri) = Appended(base)
            /\ UrlAsStr(set.provisioning.uri) = Appended(base)

\* the entry has no slot to fill: its namespace is unknown or is provisioning's
NoSlot(s) == s.namespace \notin (KnownNamespaces \ {NsProvisioning})

\* C17: a run whose list holds an entry without a slot (unknown namespace or
\* the provisioning namespace) whose address does not parse or lies outside
\* the base fails, like with any other entry: it stops at the first offending
\* entry of the list with that entry's error and returns no set.
C17_ChecksPrecedeNamespace ==
    (Returned /\ Listed /\ \E k \in 1..Len(List) : NoSlot(List[k]) /\ ~AddrGood(List[k], Base))
        => /\ Result.tag = "Err"
           /\ Result.val = None
           /\ idx = FirstOffender(List, Base)
           /\ idx <= Len(List)
           /\ Result.err = ErrorAt(List[idx], Base)

\* the run failed at an entry of the provisioning namespace that lies outside
\* the base, after a good entry
C17_Witness ==
    /\ Returned /\ Listed /\ Result.tag = "Err"
    /\ Len(List) = 2 /\ idx = 2
    /\ List[2].namespace = NsProvisioning
    /\ AddrOutside(List[2], Base)
    /\ IsUntrustedError(Result.err)

\* C18: a run that fails in the loop stopped at the earliest entry that does
\* not parse or lies outside the base: the error is that entry's (its parse
\* error when it does not parse, the untrusted-origin error naming it when it
\* parses), and the set under construction holds the clients of the entries
\* before it only: neither the offending entry nor any entry after it has
\* become a client.
C18_StopsAtEarliestOffender ==
    (Returned /\ Listed /\ \E k \in 1..Len(List) : ~AddrGood(List[k], Base))
        => LET first == FirstOffender(List, Base)
           IN  /\ Result.tag = "Err"
               /\ idx = first
               /\ IF AddrParses(List[first])
                  THEN Result.err = NotWithinMsg(List[first].x_addr, Base)
                  ELSE Result.err = UrlParse(List[first].x_addr).err
               /\ \A slot \in OptionalSlots :
                     SlotIsLastWins(Unwrap(out), SubSeq(List, 1, first - 1), slot)

\* the run failed at the first of two entries, which lies outside the base;
\* the second one is good and has a slot, which stayed empty
C18_Witness ==
    /\ Returned /\ Listed /\ Result.tag = "Err"
    /\ Len(List) = 2 /\ idx = 1
    /\ AddrOutside(List[1], Base)
    /\ AddrGood(List[2], Base)
    /\ List[2].namespace = NsPtz
    /\ Unwrap(out).ptz = None

\* C19: as long as main holds no Clients no command has been dispatched,
\* nothing has been printed and the device has seen at most the one
\* get_services request; a dispatched command implies that discovery returned
\* Ok and that get_services was the first request and was sent once; when
\* discovery fails no command is dispatched and no further request is sent.
C19_NothingBeforeDiscovery ==
    /\ ~IsSome(clients) =>
          /\ cmd = None
          /\ printed = <<>>
          /\ calls \in {<<>>, <<GetServicesRequest>>}
    /\ IsSome(cmd) =>
          /\ IsSome(ret) /\ Result.tag = "Ok"
          /\ clients = Result.val
          /\ Len(calls) >= 2
          /\ calls[1] = GetServicesRequest
          /\ \A k \in 2..Len(calls) : calls[k] # GetServicesRequest
    /\ (IsSome(ret) /\ Result.tag = "Err") =>
          /\ cmd = None
          /\ clients = None
          /\ Len(calls) <= 1
          /\ pc \in {"returned", "panicked"}

\* discovery failed in the loop, after the get_services request, and main
\* ended without a command
C19_Witness ==
    /\ IsSome(ret) /\ Result.tag = "Err"
    /\ IsUntrustedError(Result.err)
    /\ pc = "panicked"
    /\ calls = <<GetServicesRequest>>
    /\ cmd = None

\* when the loop has been left, Clients::new has returned one of its two
\* outcomes: Ok with the set after the last entry, or Err without a set at an
\* entry of the list
ReturnedOutcome ==
    IF pc = "returned" /\ IsSome(services)
    THEN /\ IsSome(ret)
         /\ \/ Result.tag = "Ok" /\ IsSome(Result.val) /\ idx = Len(List) + 1
            \/ Result.tag = "Err" /\ Result.val = None /\ idx <= Len(List)
    ELSE TRUE

\* a pass of the loop moves on to the next entry or returns at the current one
OnePass ==
    IF pc = "loop"
    THEN \/ pc' = "loop" /\ idx' = idx + 1 /\ idx <= Len(List) /\ ret' = ret
         \/ pc' = "returned" /\ idx' = idx /\ services' = services
    ELSE TRUE

\* C20: once get_services has answered with a list, every pass of the loop
\* either moves on to the next entry or returns at the current one, so no
\* entry is taken twice; the loop is left for good after finitely many
\* passes, and when it is left Clients::new has returned either Ok and the
\* set or Err and no set.
C20_DiscoveryTerminates ==
    /\ [][OnePass]_vars
    /\ []ReturnedOutcome
    /\ <>[](pc # "loop")

\* the loop took both entries of a list of two, one of them without a slot,
\* and returned Ok
C20_Witness ==
    /\ Returned /\ Listed /\ Result.tag = "Ok"
    /\ Len(List) = 2 /\ idx = 3
    /\ \E k \in 1..2 : List[k].namespace \notin KnownNamespaces

====
